---- MODULE Spec2Model ----
(***************************************************************************)
(* A model of the task queue of cuckoo-lite                                *)
(* (lib/cuckoo/core/database.py): the tasks, samples, tags and errors      *)
(* tables, the worker-side Database.fetch (Claim), which reads the best    *)
(* pending row in one session and marks it running through                 *)
(* Database.set_status in a second session, and the client-side            *)
(* operations set_status, add/add_path/add_url, add_error, reschedule and  *)
(* delete_task.  Every session commit is one step of the store; the steps  *)
(* of different callers interleave freely.  The report sink                *)
(* (modules/reporting/mongodb.py) is modelled beside it: MongoDB.run and   *)
(* store_file over GridFS's fs.files and fs.chunks and the analysis        *)
(* collection.                                                             *)
(***************************************************************************)
EXTENDS Integers, Sequences, FiniteSets, TLC

\* ------------------------------------------------------------------ bounds
MaxTasks == 3       \* task rows of the queue (ids 1..MaxTasks)
DrainTasks == 2     \* task rows of a queue being drained
LifeTasks == 2      \* task rows ever inserted in a task's whole life
LifeFetch == 1      \* fetch calls that return a row in a task's whole life
NumWorkers == 2     \* concurrent callers of fetch
NumClients == 2     \* concurrent callers of add and reschedule
NumReporters == 2   \* concurrent callers of MongoDB.run
MaxReports == 2     \* calls of MongoDB.run
MaxTime == 2        \* datetime.now() reads 1..MaxTime
MaxFetch == 3       \* fetch calls that return a row
MaxErrors == 1      \* rows of the errors table
MaxNumber == 2      \* timeouts and priorities passed in: -MaxNumber..MaxNumber

\* --------------------------------------------------------------- constants
TASK_PENDING == "pending"
TASK_RUNNING == "running"
TASK_COMPLETED == "completed"
TASK_RECOVERED == "recovered"
TASK_REPORTED == "reported"
TASK_FAILED_ANALYSIS == "failed_analysis"
TASK_FAILED_PROCESSING == "failed_processing"

\* The seven status constants a caller can pass to set_status.
Statuses ==
  {TASK_PENDING, TASK_RUNNING, TASK_COMPLETED, TASK_RECOVERED, TASK_REPORTED,
   TASK_FAILED_ANALYSIS, TASK_FAILED_PROCESSING}

\* The values the status column accepts: Enum(..., name="status_type").  A
\* commit that writes any other value is rejected by the store.
status_type ==
  {TASK_PENDING, TASK_RUNNING, TASK_COMPLETED, TASK_REPORTED, TASK_RECOVERED}

\* NULL of a nullable column (ids and timestamps start at 1).
NULL == 0

Workers == 1..NumWorkers
Clients == 1..NumClients
Reporters == 1..NumReporters

VARIABLES
  tasks,      \* the tasks table: id -> row, over the ids of the stored rows
  samples,    \* the samples table: id -> digests
  tags,       \* the tags table: id -> name
  errors,     \* the errors table: id -> task_id
  seq,        \* the primary key last given out, per table
  now,        \* the reading datetime.now() gives
  wpc,        \* wpc[w]: where worker w is in fetch
  wrow,       \* wrow[w]: the row object fetch holds (as loaded by its query)
  returned,   \* the rows fetch has returned, in order, as the caller sees them
  cl,         \* the client's call in progress (add, reschedule) or idle
  last,       \* the outcome of the latest finished call
  done,       \* the workers that have stopped calling fetch
  fs_files,   \* MongoDB, GridFS fs.files: _id -> sha256 of the stored file
  fs_chunks,  \* MongoDB, GridFS fs.chunks: the files_id that have chunks
  analysis,   \* MongoDB, the analysis collection: _id -> report document
  oid,        \* the ObjectId last generated
  rp          \* rp[r]: where reporter r is in MongoDB.run, and its locals

vars ==
  <<tasks, samples, tags, errors, seq, now, wpc, wrow, returned, cl, last, done,
    fs_files, fs_chunks, analysis, oid, rp>>

\* The MongoDB side (modules/reporting/mongodb.py) and the SQL side.
mongo == <<fs_files, fs_chunks, analysis, oid, rp>>
sql ==
  <<tasks, samples, tags, errors, seq, now, wpc, wrow, returned, cl, last, done>>

store == <<tasks, samples, tags, errors>>

\* ------------------------------------------------------------ the tables
\* (Variant: task.sample_id = sample.id forgotten.)
NewTaskNoSample(target, category, timeout, priority, custom, tagset, sample_id, t) ==
  [target |-> target, category |-> category, timeout |-> timeout,
   priority |-> priority, custom |-> custom, tags |-> tagset,
   sample_id |-> NULL, added_on |-> t, started_on |-> NULL,
   completed_on |-> NULL, status |-> TASK_PENDING]

\* A freshly inserted tasks row: status takes its server default, pending;
\* started_on and completed_on are NULL; added_on is datetime.now().
NewTask(target, category, timeout, priority, custom, tagset, sample_id, t) ==
  [target |-> target, category |-> category, timeout |-> timeout,
   priority |-> priority, custom |-> custom, tags |-> tagset,
   sample_id |-> sample_id, added_on |-> t, started_on |-> NULL,
   completed_on |-> NULL, status |-> TASK_PENDING]

\* The table with row i put.
PutRow(tbl, i, row) == [j \in (DOMAIN tbl) \cup {i} |-> IF j = i THEN row ELSE tbl[j]]

\* datetime.now(): the last reading, or a later one.
Clock(tick) == IF tick /\ now < MaxTime THEN now + 1 ELSE now

\* ------------------------------------------------------------ set_status
\* The row set_status writes: the new status, started_on when the status is
\* running, completed_on when it is completed, whatever the row held.
StatusWrite(row, status, t) ==
  [row EXCEPT !.status = status,
              !.started_on = IF status = TASK_RUNNING THEN t ELSE @,
              !.completed_on = IF status = TASK_COMPLETED THEN t ELSE @]

\* What set_status leaves to its caller.  With no row of that id the
\* assignment row.status raises AttributeError, which set_status does not
\* catch.  A commit the store refuses (a status outside status_type, or a
\* store failure) raises SQLAlchemyError, which set_status logs and drops:
\* the call returns None like a successful one.
SetStatusOutcome(tbl, task_id, status, commit_ok) ==
  IF task_id \notin DOMAIN tbl THEN "AttributeError" ELSE "None"

\* (Variant: the update misses its WHERE id = task_id and writes every row.)
SetStatusEveryRow(tbl, task_id, status, t, commit_ok) ==
  IF task_id \in DOMAIN tbl /\ status \in status_type /\ commit_ok
  THEN [i \in DOMAIN tbl |-> StatusWrite(tbl[i], status, t)]
  ELSE tbl

\* The tasks table after set_status(task_id, status) at time t.
SetStatusTable(tbl, task_id, status, t, commit_ok) ==
  IF task_id \in DOMAIN tbl /\ status \in status_type /\ commit_ok
  THEN [tbl EXCEPT ![task_id] = StatusWrite(@, status, t)]
  ELSE tbl

\* ----------------------------------------------------------------- fetch
\* (Variant: the filter also keeps the running rows.)
PendingOrRunningIds(tbl) ==
  {i \in DOMAIN tbl : tbl[i].status \in {TASK_PENDING, TASK_RUNNING}}

\* The ids of the rows the query's filter keeps: Task.status == TASK_PENDING.
PendingIds(tbl) == {i \in DOMAIN tbl : tbl[i].status = TASK_PENDING}

\* (Variant: order_by("priority, added_on"), the desc forgotten.)
OrderedBeforeAscending(tbl, i, j) ==
  \/ tbl[i].priority < tbl[j].priority
  \/ /\ tbl[i].priority = tbl[j].priority
     /\ tbl[i].added_on <= tbl[j].added_on

\* order_by("priority desc, added_on"): i is listed no later than j.
OrderedBefore(tbl, i, j) ==
  \/ tbl[i].priority > tbl[j].priority
  \/ /\ tbl[i].priority = tbl[j].priority
     /\ tbl[i].added_on <= tbl[j].added_on

\* The rows .first() can give: those no other kept row is listed strictly
\* before (the store is free to break a full tie either way).
FirstPending(tbl) ==
  {i \in PendingIds(tbl) : \A j \in PendingIds(tbl) : OrderedBefore(tbl, i, j)}

\* The row object a session holds, as loaded from the table (the columns
\* the callers of fetch read).
Loaded(tbl, i) ==
  [id |-> i, status |-> tbl[i].status, started_on |-> tbl[i].started_on]

NoRow == [id |-> NULL]

\* fetch, first step: the query.  It raises SQLAlchemyError (store failure:
\* fetch logs it and returns row, still None), finds no pending row (fetch
\* returns None), or loads the first pending row.
FetchQuery(w, query_ok) ==
  /\ wpc[w] = "idle"
  /\ IF query_ok /\ FirstPending(tasks) # {}
     THEN /\ \E i \in FirstPending(tasks) :
               wrow' = [wrow EXCEPT ![w] = Loaded(tasks, i)]
          /\ wpc' = [wpc EXCEPT ![w] = "selected"]
          /\ UNCHANGED last
     ELSE /\ last' = [op |-> "fetch", outcome |-> "None"]
          /\ UNCHANGED <<wpc, wrow>>
  /\ UNCHANGED <<store, seq, now, returned, cl, mongo>>

\* A worker that polls: fetch, whatever it returns, is called again.
Fetch(w, query_ok) == FetchQuery(w, query_ok) /\ UNCHANGED done

\* A worker that drains the queue: it stops at the first None.
FetchOrStop(w, query_ok) ==
  /\ w \notin done
  /\ FetchQuery(w, query_ok)
  /\ done' = IF wpc'[w] = "idle" THEN done \cup {w} ELSE done

\* fetch, second step (lock=True): set_status(row.id, TASK_RUNNING) in a
\* session of its own.  An AttributeError leaves fetch through its finally.
FetchLock(w, commit_ok, tick) ==
  /\ wpc[w] = "selected"
  /\ tasks' = SetStatusTable(tasks, wrow[w].id, TASK_RUNNING, Clock(tick), commit_ok)
  /\ now' = Clock(tick)
  /\ IF SetStatusOutcome(tasks, wrow[w].id, TASK_RUNNING, commit_ok) = "AttributeError"
     THEN /\ wpc' = [wpc EXCEPT ![w] = "idle"]
          /\ wrow' = [wrow EXCEPT ![w] = NoRow]
          /\ last' = [op |-> "fetch", outcome |-> "AttributeError"]
     ELSE /\ wpc' = [wpc EXCEPT ![w] = "locked"]
          /\ UNCHANGED <<wrow, last>>
  /\ UNCHANGED <<samples, tags, errors, seq, returned, cl, done, mongo>>

\* fetch, last step: session.refresh(row) reloads the row and fetch returns
\* it.  With the row gone refresh raises InvalidRequestError, a
\* SQLAlchemyError: fetch logs it and returns the row as its query loaded it.
FetchRefresh(w) ==
  /\ wpc[w] = "locked"
  /\ returned' = Append(returned, IF wrow[w].id \in DOMAIN tasks
                                  THEN Loaded(tasks, wrow[w].id) ELSE wrow[w])
  /\ last' = [op |-> "fetch", outcome |-> "row"]
  /\ wpc' = [wpc EXCEPT ![w] = "idle"]
  /\ wrow' = [wrow EXCEPT ![w] = NoRow]
  /\ UNCHANGED <<store, seq, now, cl, done, mongo>>

\* ------------------------------------------------- the one-commit calls
\* (set_status, add_error and delete_task open one session and commit once:
\* any caller may run them at any moment.)

\* set_status(task_id, status) called directly (a worker reporting the end
\* of a run, the processing step, a tool).
SetStatus(task_id, status, commit_ok, tick) ==
  /\ tasks' = SetStatusTable(tasks, task_id, status, Clock(tick), commit_ok)
  /\ now' = Clock(tick)
  /\ last' = [op |-> "set_status",
              outcome |-> SetStatusOutcome(tasks, task_id, status, commit_ok)]
  /\ UNCHANGED <<samples, tags, errors, seq, wpc, wrow, returned, cl, done, mongo>>

\* add_error(message, task_id): one errors row; a commit the store refuses
\* is logged and dropped.
AddError(task_id, commit_ok) ==
  /\ IF commit_ok
     THEN /\ errors' = PutRow(errors, seq.error + 1, task_id)
          /\ seq' = [seq EXCEPT !.error = @ + 1]
     ELSE UNCHANGED <<errors, seq>>
  /\ last' = [op |-> "add_error", outcome |-> "None"]
  /\ UNCHANGED <<tasks, samples, tags, now, wpc, wrow, returned, cl, done, mongo>>

\* The tasks session.delete(task) reaches: Task.tags cascades "all, delete"
\* to the task's tags, and the backref Tag.task cascades "all" back to every
\* task of such a tag.
RECURSIVE DeleteCascade(_, _, _)
DeleteCascade(tbl, tagtbl, S) ==
  LET more == {j \in DOMAIN tbl :
                 \E i \in S : tbl[i].tags \cap tbl[j].tags \cap DOMAIN tagtbl # {}}
  IN IF more \subseteq S THEN S ELSE DeleteCascade(tbl, tagtbl, S \cup more)

\* delete_task(task_id).  With no row of that id session.delete(None) raises
\* UnmappedInstanceError, a SQLAlchemyError: the call returns False, as it
\* does when the commit fails.  Otherwise the task, the rows its cascades
\* reach and their errors rows go.
DeleteTask(task_id, commit_ok) ==
  /\ IF task_id \in DOMAIN tasks /\ commit_ok
     THEN LET gone == DeleteCascade(tasks, tags, {task_id})
              tagsgone == UNION {tasks[i].tags : i \in gone}
          IN /\ tasks' = [i \in (DOMAIN tasks) \ gone |-> tasks[i]]
             /\ tags' = [i \in (DOMAIN tags) \ tagsgone |-> tags[i]]
             /\ errors' = [e \in {x \in DOMAIN errors : errors[x] \notin gone}
                             |-> errors[e]]
             /\ last' = [op |-> "delete_task", outcome |-> "True"]
     ELSE /\ last' = [op |-> "delete_task", outcome |-> "False"]
          /\ UNCHANGED <<tasks, tags, errors>>
  /\ UNCHANGED <<samples, seq, now, wpc, wrow, returned, cl, done, mongo>>

\* ---------------------------------------------------- add and reschedule
\* A client runs one add or reschedule at a time; clients run side by side.
\* A step is one access to the store (a query or a commit) with the local
\* code before it.
Idle == [pc |-> "idle"]

\* "Convert empty strings and None values to a valid int": `not timeout`
\* and `not priority` hold of 0 (and of None and ""), of no other integer.
NormTimeout(timeout) == IF timeout = 0 THEN 0 ELSE timeout
NormPriority(priority) == IF priority = 0 THEN 1 ELSE priority

\* A URL has no digests.
NoDigest == [md5 |-> "", rest |-> ""]

\* The call frame of add(obj, ...): obj is a File (its path and the digests
\* of what the path holds) or a URL.  package, options, platform, memory,
\* enforce_timeout and a given clock are assigned to the task as custom is.
AddFrame(call, category, target, digest, timeout, priority, custom, labels) ==
  [pc |-> "add", call |-> call, category |-> category, target |-> target,
   digest |-> digest, timeout |-> NormTimeout(timeout),
   priority |-> NormPriority(priority), custom |-> custom, labels |-> labels,
   sample_id |-> NULL, tagobjs |-> <<>>]

\* The ids of the samples rows with these digests / with this md5.
SamplesWith(tbl, digest) == {i \in DOMAIN tbl : tbl[i] = digest}
SamplesWithMd5(tbl, md5) == {i \in DOMAIN tbl : tbl[i].md5 = md5}

\* _get_or_create(session, Tag, name=label): a row of that name, or a new
\* Tag object, which is in no session until the task is added.
GetOrCreate(tagtbl, label) ==
  IF \E j \in DOMAIN tagtbl : tagtbl[j] = label
  THEN {[id |-> j, name |-> label] : j \in {i \in DOMAIN tagtbl : tagtbl[i] = label}}
  ELSE {[id |-> NULL, name |-> label]}

\* The outcome of a finished add, add_path, add_url or reschedule of
\* client c: for add "id" (the new task's id, the latest of seq) or "None".
Return(c, op, outcome) ==
  /\ cl' = [cl EXCEPT ![c] = Idle]
  /\ last' = [op |-> op, outcome |-> outcome]

\* `if tags:` - the next access of add after the sample is the tags' queries
\* or, with no tags, the commit.
AfterSample(f) == IF f.labels = <<>> THEN "commit" ELSE "tags"

\* add, for a File: the samples row is added and committed at once.  The
\* unique index hash_index refuses a second row of the same digests
\* (IntegrityError: add rolls back and goes on to re-read); any other
\* SQLAlchemyError makes add return None.
DoSample(c, f, commit_ok) ==
  /\ IF ~commit_ok
     THEN /\ Return(c, f.call, "None")
          /\ UNCHANGED <<samples, seq>>
     ELSE IF SamplesWith(samples, f.digest) # {}
     THEN /\ cl' = [cl EXCEPT ![c] = [f EXCEPT !.pc = "reread"]]
          /\ UNCHANGED <<samples, seq, last>>
     ELSE /\ samples' = PutRow(samples, seq.sample + 1, f.digest)
          /\ seq' = [seq EXCEPT !.sample = @ + 1]
          /\ cl' = [cl EXCEPT ![c] = [f EXCEPT !.pc = AfterSample(f),
                                               !.sample_id = seq.sample + 1]]
          /\ UNCHANGED last
  /\ UNCHANGED <<tasks, tags, errors, now, wpc, wrow, returned, done, mongo>>

\* add, after the IntegrityError: the first samples row with the file's md5.
DoReread(c, f, query_ok) ==
  /\ IF ~query_ok
     THEN Return(c, f.call, "None")
     ELSE /\ \E i \in SamplesWithMd5(samples, f.digest.md5) :
               cl' = [cl EXCEPT ![c] = [f EXCEPT !.pc = AfterSample(f),
                                                 !.sample_id = i]]
          /\ UNCHANGED last
  /\ UNCHANGED <<store, seq, now, wpc, wrow, returned, done, mongo>>

\* add: one _get_or_create per label of the tags string, in order.
DoTags(c, f) ==
  /\ \E objs \in [1..Len(f.labels) -> {[id |-> i, name |-> n] :
                                        i \in {NULL} \cup DOMAIN tags,
                                        n \in {f.labels[k] : k \in 1..Len(f.labels)}}] :
       /\ \A k \in 1..Len(f.labels) : objs[k] \in GetOrCreate(tags, f.labels[k])
       /\ cl' = [cl EXCEPT ![c] = [f EXCEPT !.pc = "commit", !.tagobjs = objs]]
  /\ UNCHANGED <<store, seq, now, wpc, wrow, returned, last, done, mongo>>

\* add: session.add(task) and the commit, which inserts the task, the new
\* Tag objects and the task's tasks_tags rows.  The unique name column of
\* tags refuses the commit when a new Tag's name is stored already or two
\* new Tags share a name; add then rolls back and returns None, as on any
\* other SQLAlchemyError.
DoCommit(c, f, commit_ok, tick) ==
  /\ LET new == {k \in 1..Len(f.tagobjs) : f.tagobjs[k].id = NULL}
         clash == \/ \E k \in new : \E j \in DOMAIN tags : tags[j] = f.tagobjs[k].name
                  \/ \E k, m \in new : k # m /\ f.tagobjs[k].name = f.tagobjs[m].name
         newid(k) == seq.tag + Cardinality({m \in new : m <= k})
         tagids == {IF k \in new THEN newid(k) ELSE f.tagobjs[k].id :
                      k \in 1..Len(f.tagobjs)}
         id == seq.task + 1
     IN IF commit_ok /\ ~clash
        THEN /\ tags' = [i \in DOMAIN tags \cup {newid(k) : k \in new} |->
                           IF i \in DOMAIN tags THEN tags[i]
                           ELSE f.tagobjs[CHOOSE k \in new : newid(k) = i].name]
             /\ tasks' = PutRow(tasks, id,
                           NewTask(f.target, f.category, f.timeout, f.priority,
                                   f.custom, tagids, f.sample_id, Clock(tick)))
             /\ seq' = [seq EXCEPT !.task = id, !.tag = @ + Cardinality(new)]
             /\ Return(c, f.call, "id")
        ELSE /\ Return(c, f.call, "None")
             /\ UNCHANGED <<tasks, tags, seq>>
  /\ now' = Clock(tick)
  /\ UNCHANGED <<samples, errors, wpc, wrow, returned, done, mongo>>

\* add(obj, ...) up to its first access to the store.
DoAdd(c, f, ok, tick) ==
  IF f.category = "file" THEN DoSample(c, f, ok)
  ELSE IF f.labels = <<>> THEN DoCommit(c, f, ok, tick)
  ELSE DoTags(c, f)

\* add_path(file_path, ...): None for a path that does not exist, else
\* add(File(file_path), ...).
AddPath(c, target, digest, timeout, priority, custom, labels, exists, ok) ==
  /\ cl[c] = Idle
  /\ IF exists
     THEN DoAdd(c, AddFrame("add", "file", target, digest, NormTimeout(timeout),
                            NormPriority(priority), custom, labels), ok, FALSE)
     ELSE /\ Return(c, "add", "None")
          /\ UNCHANGED <<store, seq, now, wpc, wrow, returned, done, mongo>>

\* add_url(url, ...): add(URL(url), ...).
AddUrl(c, target, timeout, priority, custom, labels, ok, tick) ==
  /\ cl[c] = Idle
  /\ DoAdd(c, AddFrame("add", "url", target, NoDigest, NormTimeout(timeout),
                       NormPriority(priority), custom, labels), ok, tick)

\* The accesses of a running add: the first of an add that reschedule
\* entered, and the later ones.
AddEnter(c, ok, tick) == cl[c].pc = "add" /\ DoAdd(c, cl[c], ok, tick)
AddReread(c, query_ok) == cl[c].pc = "reread" /\ DoReread(c, cl[c], query_ok)
AddTags(c) == cl[c].pc = "tags" /\ DoTags(c, cl[c])
AddCommit(c, commit_ok, tick) ==
  cl[c].pc = "commit" /\ DoCommit(c, cl[c], commit_ok, tick)

\* (Variant: only one of the task's labels is passed on.)
LabelListOne(S) == IF S = {} THEN <<>> ELSE <<CHOOSE y \in S : TRUE>>

\* A set of labels as the list ",".join and split(",") carry.
RECURSIVE LabelList(_)
LabelList(S) ==
  IF S = {} THEN <<>>
  ELSE LET x == CHOOSE y \in S : TRUE IN <<x>> \o LabelList(S \ {x})

\* reschedule, first step: view_task(task_id) loads the task and its tags
\* and detaches it; no such task (or a store failure) gives None.
RescheduleView(c, task_id, query_ok) ==
  /\ cl[c] = Idle
  /\ IF query_ok /\ task_id \in DOMAIN tasks
     THEN /\ cl' = [cl EXCEPT ![c] =
                      [pc |-> "recover", id |-> task_id,
                       category |-> tasks[task_id].category,
                       target |-> tasks[task_id].target,
                       timeout |-> tasks[task_id].timeout,
                       priority |-> tasks[task_id].priority,
                       custom |-> tasks[task_id].custom,
                       labels |-> LabelList({tags[i] :
                                    i \in tasks[task_id].tags \cap DOMAIN tags})]]
          /\ UNCHANGED last
     ELSE Return(c, "reschedule", "None")
  /\ UNCHANGED <<store, seq, now, wpc, wrow, returned, done, mongo>>

\* reschedule, second step: a new session sets the row's status to
\* recovered and commits (a failed commit returns False; a row deleted
\* since the first step raises AttributeError), then add_path or add_url is
\* called with the values of the detached task: add_path returns None for
\* a path that is gone, else add is entered (id: reschedule's own task_id,
\* which its frame keeps while add runs).
RescheduleRecover(c, digest, commit_ok, exists) ==
  /\ cl[c].pc = "recover"
  /\ LET f == cl[c]
         frame(d) == AddFrame("reschedule", f.category, f.target, d,
                              NormTimeout(f.timeout), NormPriority(f.priority),
                              f.custom, f.labels) @@ [id |-> f.id]
     IN IF f.id \notin DOMAIN tasks
        THEN /\ Return(c, "reschedule", "AttributeError")
             /\ UNCHANGED tasks
        ELSE IF ~commit_ok
        THEN /\ Return(c, "reschedule", "False")
             /\ UNCHANGED tasks
        ELSE /\ tasks' = [tasks EXCEPT ![f.id].status = TASK_RECOVERED]
             /\ IF f.category = "file"
                THEN IF exists
                     THEN /\ cl' = [cl EXCEPT ![c] = frame(digest)]
                          /\ UNCHANGED last
                     ELSE Return(c, "reschedule", "None")
                ELSE /\ cl' = [cl EXCEPT ![c] = frame(NoDigest)]
                     /\ UNCHANGED last
  /\ UNCHANGED <<samples, tags, errors, seq, now, wpc, wrow, returned, done, mongo>>

\* ------------------------------------------------------------- the reads
\* The rows list_tasks selects: `if status:`, `if not_status:` and
\* `if category:` each add a filter; an empty value adds none.
ListFilter(tbl, category, status, not_status) ==
  {i \in DOMAIN tbl :
     /\ status # "" => tbl[i].status = status
     /\ not_status # "" => tbl[i].status # not_status
     /\ category # "" => tbl[i].category = category}

\* order_by("added_on desc"): the rows S in an order of falling added_on;
\* rows added at one reading come in any order.
AddedOnDesc(tbl, S) ==
  {s \in [1..Cardinality(S) -> S] :
     /\ \A i, j \in 1..Cardinality(S) : s[i] = s[j] => i = j
     /\ \A i, j \in 1..Cardinality(S) :
          i < j => tbl[s[i]].added_on >= tbl[s[j]].added_on}

\* .limit(limit).offset(offset): the rows after the first `offset`, at most
\* `limit` of them; NULL stands for None.
Window(s, limit, offset) ==
  SubSeq(s, offset + 1,
         IF limit = NULL \/ offset + limit > Len(s) THEN Len(s)
         ELSE offset + limit)

\* list_tasks: one query; on SQLAlchemyError the error is logged and printed
\* and None returned.  (details only adds the errors and tags to the load.)
ListTasks(limit, category, offset, status, not_status, query_ok) ==
  /\ IF query_ok
     THEN \E s \in AddedOnDesc(tasks, ListFilter(tasks, category, status,
                                                 not_status)) :
            last' = [op |-> "list_tasks", outcome |-> "rows",
                     rows |-> Window(s, limit, offset)]
     ELSE last' = [op |-> "list_tasks", outcome |-> "None"]
  /\ UNCHANGED <<store, seq, now, wpc, wrow, returned, cl, done, mongo>>

\* count_tasks: one query; on SQLAlchemyError 0 is returned.
CountTasks(status, query_ok) ==
  /\ last' = [op |-> "count_tasks", outcome |-> "count",
              count |-> IF query_ok
                        THEN Cardinality(ListFilter(tasks, "", status, ""))
                        ELSE 0]
  /\ UNCHANGED <<store, seq, now, wpc, wrow, returned, cl, done, mongo>>

\* view_task: query.get(task_id); the row, or None when there is none or
\* on SQLAlchemyError.
ViewTask(task_id, query_ok) ==
  /\ IF query_ok /\ task_id \in DOMAIN tasks
     THEN last' = [op |-> "view_task", outcome |-> "task",
                   row |-> Loaded(tasks, task_id)]
     ELSE last' = [op |-> "view_task", outcome |-> "None"]
  /\ UNCHANGED <<store, seq, now, wpc, wrow, returned, cl, done, mongo>>

\* view_errors: the errors rows of the task, in the order the store gives
\* them; None on SQLAlchemyError.
ViewErrors(task_id, query_ok) ==
  /\ IF query_ok
     THEN LET S == {e \in DOMAIN errors : errors[e] = task_id} IN
            \E s \in [1..Cardinality(S) -> S] :
              /\ \A i, j \in 1..Cardinality(S) : s[i] = s[j] => i = j
              /\ last' = [op |-> "view_errors", outcome |-> "rows", rows |-> s]
     ELSE last' = [op |-> "view_errors", outcome |-> "None"]
  /\ UNCHANGED <<store, seq, now, wpc, wrow, returned, cl, done, mongo>>

\* -------------------------------------------------------------- MongoDB
\* An empty cuckoo database on MongoDB; no reporter running.
InitMongo ==
  /\ fs_files = <<>>
  /\ fs_chunks = {}
  /\ analysis = <<>>
  /\ oid = 0
  /\ rp = [r \in Reporters |-> Idle]

\* The SQL side but for the outcome of the latest call.
sqldb == <<tasks, samples, tags, errors, seq, now, wpc, wrow, returned, cl, done>>

\* find_one({"sha256": sha}) on fs.files: the _id of a document of that
\* sha256 (none when the set is empty).
FindOne(files, sha) == {i \in DOMAIN files : files[i] = sha}

\* (Variant: the index sha256_unique was never created.)
NoUniqueIndex(files, sha) == FALSE

\* The unique index "sha256_unique" that run ensures on fs.files refuses
\* the insert of a second document of one sha256.
DuplicateKey(files, sha) == FindOne(files, sha) # {}

\* The results dictionary the processing hands to run: the task's id and
\* category under "info", and the "target" section.
Results(task, category) ==
  [id |-> task, category |-> category, target |-> [category |-> category]]

\* report["target"] = {"file_id": sample_id}; report["target"].update(...)
WithFileId(report, file_id) ==
  [report EXCEPT !.target = [file_id |-> file_id] @@ report.target]

\* (Variant: the file id is written into results["target"] itself.)
SetTargetInPlace(f, file_id) ==
  [f EXCEPT !.report = WithFileId(@, file_id),
            !.results = WithFileId(@, file_id)]

\* The locals of run after `report["target"] = {"file_id": sample_id}` and
\* its update: the copy has a new target section, results keeps its own.
SetTarget(f, file_id) == [f EXCEPT !.report = WithFileId(@, file_id)]

\* The document save leaves in the dictionary it was given: save writes the
\* generated ObjectId under "_id".
WithId(doc, id) == [k \in {"_id"} |-> id] @@ doc

\* run, up to its first access to the store: connect, ensure_index,
\* report = dict(results); for a file task whose sample file is valid,
\* store_file is entered, otherwise the report is saved as it is.
RunEnter(r, task, category, sha, valid) ==
  /\ rp[r] = Idle
  /\ rp' = [rp EXCEPT ![r] =
              [pc |-> IF category = "file" /\ valid THEN "find" ELSE "save",
               results |-> Results(task, category),
               report |-> Results(task, category),
               sha |-> sha, valid |-> valid, new |-> NULL]]
  /\ UNCHANGED <<fs_files, fs_chunks, analysis, oid, sql>>

\* store_file, first step: find_one by sha256.  An existing document's _id
\* is returned; otherwise new_file draws the ObjectId of the file to write.
StoreFind(r) ==
  /\ rp[r].pc = "find"
  /\ IF FindOne(fs_files, rp[r].sha) # {}
     THEN /\ \E i \in FindOne(fs_files, rp[r].sha) :
               rp' = [rp EXCEPT ![r] = [SetTarget(@, i) EXCEPT !.pc = "save"]]
          /\ UNCHANGED oid
     ELSE /\ oid' = oid + 1
          /\ rp' = [rp EXCEPT ![r].pc = "close", ![r].new = oid + 1]
  /\ UNCHANGED <<fs_files, fs_chunks, analysis, sql>>

\* store_file, second step: the chunks are written to fs.chunks and
\* new.close() inserts the fs.files document.  When the unique index
\* refuses it, close raises FileExists and store_file goes on to re-read;
\* the chunks already written stay.
StoreClose(r) ==
  /\ rp[r].pc = "close"
  /\ fs_chunks' = fs_chunks \cup {rp[r].new}
  /\ IF DuplicateKey(fs_files, rp[r].sha)
     THEN /\ rp' = [rp EXCEPT ![r].pc = "refind"]
          /\ UNCHANGED fs_files
     ELSE /\ fs_files' = PutRow(fs_files, rp[r].new, rp[r].sha)
          /\ rp' = [rp EXCEPT ![r] =
                      [SetTarget(@, rp[r].new) EXCEPT !.pc = "save"]]
  /\ UNCHANGED <<analysis, oid, sql>>

\* store_file, after FileExists: find_one(to_find)["_id"]; with no such
\* document left the subscript of None raises TypeError out of run.
StoreRefind(r) ==
  /\ rp[r].pc = "refind"
  /\ IF FindOne(fs_files, rp[r].sha) # {}
     THEN /\ \E i \in FindOne(fs_files, rp[r].sha) :
               rp' = [rp EXCEPT ![r] = [SetTarget(@, i) EXCEPT !.pc = "save"]]
          /\ UNCHANGED last
     ELSE /\ rp' = [rp EXCEPT ![r] = Idle]
          /\ last' = [op |-> "run", outcome |-> "TypeError"]
  /\ UNCHANGED <<fs_files, fs_chunks, analysis, oid, sqldb>>

\* run: self.db.analysis.save(report).  The report has no "_id", so save
\* inserts it under a new ObjectId, which it writes into report.
Save(r) ==
  /\ rp[r].pc = "save"
  /\ analysis' = PutRow(analysis, oid + 1, rp[r].report)
  /\ oid' = oid + 1
  /\ rp' = [rp EXCEPT ![r].pc = "saved", ![r].report = WithId(@, oid + 1)]
  /\ UNCHANGED <<fs_files, fs_chunks, sql>>

\* run, last step: self.conn.disconnect(); run returns None and its caller
\* has results back.
Disconnect(r) ==
  /\ rp[r].pc = "saved"
  /\ rp' = [rp EXCEPT ![r] = Idle]
  /\ last' = [op |-> "run", outcome |-> "None"]
  /\ UNCHANGED <<fs_files, fs_chunks, analysis, oid, sqldb>>

\* ------------------------------------------------------------ the system
\* What callers pass in: the digests files hold (two distinct contents that
\* share an md5) and priorities.
Digests == {[md5 |-> "m", rest |-> "x"], [md5 |-> "m", rest |-> "y"]}
Priorities == {1, 3, 5}

\* An empty database; no call in progress.
Init ==
  /\ tasks = <<>>
  /\ samples = <<>>
  /\ tags = <<>>
  /\ errors = <<>>
  /\ seq = [task |-> 0, sample |-> 0, tag |-> 0, error |-> 0]
  /\ now = 1
  /\ wpc = [w \in Workers |-> "idle"]
  /\ wrow = [w \in Workers |-> NoRow]
  /\ returned = <<>>
  /\ cl = [c \in Clients |-> Idle]
  /\ last = [op |-> "none", outcome |-> "None"]
  /\ done = {}
  /\ InitMongo

\* Calls of fetch in progress.
Fetching == {w \in Workers : wpc[w] # "idle"}

\* The whole life of a task: a client that submits URLs and reschedules
\* tasks; one polling worker; set_status and delete_task from any caller;
\* store failures anywhere.
Next ==
  \/ \E ok, tick \in BOOLEAN :
       /\ seq.task < LifeTasks
       /\ AddUrl(1, "url", 0, 1, "", <<>>, ok, tick)
  \/ \E t \in 1..LifeTasks, ok \in BOOLEAN :
       /\ seq.task < LifeTasks
       /\ RescheduleView(1, t, ok)
  \/ \E ok \in BOOLEAN : RescheduleRecover(1, NoDigest, ok, TRUE)
  \/ \E ok, tick \in BOOLEAN : AddEnter(1, ok, tick)
  \/ \E ok \in BOOLEAN :
       /\ Len(returned) + Cardinality(Fetching) < LifeFetch
       /\ Fetch(1, ok)
  \/ \E ok, tick \in BOOLEAN : FetchLock(1, ok, tick)
  \/ FetchRefresh(1)
  \/ \E t \in 1..LifeTasks, s \in Statuses, ok, tick \in BOOLEAN :
       SetStatus(t, s, ok, tick)
  \/ \E t \in 1..LifeTasks, ok \in BOOLEAN : DeleteTask(t, ok)

Spec == Init /\ [][Next]_vars

\* The queue under submission and fetch: URL tasks of every priority are
\* submitted while one worker polls; the store does not fail.
NextClaim ==
  \/ \E p \in Priorities, tick \in BOOLEAN :
       /\ seq.task < MaxTasks
       /\ AddUrl(1, "url", 0, p, "", <<>>, TRUE, tick)
  \/ Fetch(1, TRUE)
  \/ \E tick \in BOOLEAN : FetchLock(1, TRUE, tick)
  \/ FetchRefresh(1)

SpecClaim == Init /\ [][NextClaim]_vars

\* The same queue on a store that can fail any query and any commit.
NextFault ==
  \/ \E p \in Priorities, ok, tick \in BOOLEAN :
       /\ seq.task < MaxTasks
       /\ AddUrl(1, "url", 0, p, "", <<>>, ok, tick)
  \/ \E ok \in BOOLEAN :
       /\ Len(returned) + Cardinality(Fetching) < MaxFetch
       /\ Fetch(1, ok)
  \/ \E ok, tick \in BOOLEAN : FetchLock(1, ok, tick)
  \/ FetchRefresh(1)

SpecFault == Init /\ [][NextFault]_vars

\* Draining a queue: DrainTasks pending URL tasks of any priorities,
\* submitted at one reading of the clock, and every worker calling fetch
\* until it returns None; nothing else runs and the store does not fail.
DrainIds == 1..DrainTasks

InitDrain ==
  /\ \E prio \in [DrainIds -> Priorities] :
       tasks = [i \in DrainIds |-> NewTask("url", "url", 0, prio[i], "", {}, NULL, 1)]
  /\ samples = <<>>
  /\ tags = <<>>
  /\ errors = <<>>
  /\ seq = [task |-> DrainTasks, sample |-> 0, tag |-> 0, error |-> 0]
  /\ now = MaxTime
  /\ wpc = [w \in Workers |-> "idle"]
  /\ wrow = [w \in Workers |-> NoRow]
  /\ returned = <<>>
  /\ cl = [c \in Clients |-> Idle]
  /\ last = [op |-> "none", outcome |-> "None"]
  /\ done = {}
  /\ InitMongo

Work(w) ==
  \/ FetchOrStop(w, TRUE)
  \/ FetchLock(w, TRUE, FALSE)
  \/ FetchRefresh(w)

NextDrain == \E w \in Workers : Work(w)

\* Every worker is a thread of its own and keeps running.
SpecDrain == InitDrain /\ [][NextDrain]_vars /\ \A w \in Workers : WF_vars(Work(w))

\* A reschedule racing a fetch: a client that submits URLs and reschedules
\* them, the worker's fetch, and the worker's own set_status(completed) on
\* a running task.  The store does not fail.
NextRecover ==
  \/ \E tick \in BOOLEAN :
       /\ seq.task < LifeTasks
       /\ AddUrl(1, "url", 0, 1, "", <<>>, TRUE, tick)
  \/ \E t \in 1..LifeTasks :
       /\ seq.task < LifeTasks
       /\ RescheduleView(1, t, TRUE)
  \/ RescheduleRecover(1, NoDigest, TRUE, TRUE)
  \/ \E tick \in BOOLEAN : AddEnter(1, TRUE, tick)
  \/ /\ Len(returned) + Cardinality(Fetching) < MaxFetch
     /\ Fetch(1, TRUE)
  \/ \E tick \in BOOLEAN : FetchLock(1, TRUE, tick)
  \/ FetchRefresh(1)
  \/ \E t \in DOMAIN tasks, tick \in BOOLEAN :
       /\ tasks[t].status = TASK_RUNNING
       /\ SetStatus(t, TASK_COMPLETED, TRUE, tick)

SpecRecover == Init /\ [][NextRecover]_vars

\* The pipeline at rest: files of one content, tagged "a", are submitted,
\* fetched and completed, and errors are logged, while one worker goes on
\* calling fetch; only the query of fetch is let fail.
NextIdle ==
  \/ \E d \in {CHOOSE x \in Digests : TRUE} :
       /\ seq.task < LifeTasks
       /\ AddPath(1, "/path", d, 0, 1, "", <<"a">>, TRUE, TRUE)
  \/ AddReread(1, TRUE)
  \/ AddTags(1)
  \/ \E tick \in BOOLEAN : AddCommit(1, TRUE, tick)
  \/ \E ok \in BOOLEAN : Fetch(1, ok)
  \/ \E tick \in BOOLEAN : FetchLock(1, TRUE, tick)
  \/ FetchRefresh(1)
  \/ \E t \in DOMAIN tasks, tick \in BOOLEAN :
       /\ tasks[t].status = TASK_RUNNING
       /\ SetStatus(t, TASK_COMPLETED, TRUE, tick)
  \/ \E t \in DOMAIN tasks :
       /\ seq.error < MaxErrors
       /\ AddError(t, TRUE)

SpecIdle == Init /\ [][NextIdle]_vars

\* Files and URLs: a client submits files of either content and URLs and
\* reschedules tasks (the file of a rescheduled task may have changed or
\* gone), tasks are deleted, and the store can fail any query or commit.
NextFiles ==
  \/ \E d \in Digests, exists, ok \in BOOLEAN :
       /\ seq.task < MaxTasks
       /\ AddPath(1, "/path", d, 0, 1, "", <<>>, exists, ok)
  \/ \E ok \in BOOLEAN :
       /\ seq.task < MaxTasks
       /\ AddUrl(1, "url", 0, 1, "", <<>>, ok, FALSE)
  \/ \E ok \in BOOLEAN : AddReread(1, ok)
  \/ \E ok \in BOOLEAN : AddCommit(1, ok, FALSE)
  \/ \E t \in 1..MaxTasks, ok \in BOOLEAN :
       /\ seq.task < MaxTasks
       /\ RescheduleView(1, t, ok)
  \/ \E d \in Digests, ok, exists \in BOOLEAN :
       RescheduleRecover(1, d, ok, exists)
  \/ \E ok \in BOOLEAN : AddEnter(1, ok, FALSE)
  \/ \E t \in 1..MaxTasks, ok \in BOOLEAN : DeleteTask(t, ok)

SpecFiles == Init /\ [][NextFiles]_vars

\* Submissions side by side: every client submits files of either content,
\* tagged "a" or not; the store does not fail.
NextSubmit ==
  \/ \E c \in Clients, d \in Digests, l \in {<<>>, <<"a">>} :
       /\ seq.task + Cardinality({k \in Clients : cl[k] # Idle}) < MaxTasks
       /\ AddPath(c, "/path", d, 0, 1, "", l, TRUE, TRUE)
  \/ \E c \in Clients : AddReread(c, TRUE)
  \/ \E c \in Clients : AddTags(c)
  \/ \E c \in Clients : AddCommit(c, TRUE, FALSE)

SpecSubmit == Init /\ [][NextSubmit]_vars

\* Numeric inputs: a client submits URLs and files with any timeout and
\* priority of Numbers; the store does not fail.
Numbers == (0 - MaxNumber)..MaxNumber

NextNumbers ==
  \/ \E timeout, priority \in Numbers :
       /\ seq.task < LifeTasks
       /\ AddUrl(1, "url", timeout, priority, "", <<>>, TRUE, FALSE)
  \/ \E d \in {CHOOSE x \in Digests : TRUE}, timeout, priority \in Numbers :
       /\ seq.task < LifeTasks
       /\ AddPath(1, "/path", d, timeout, priority, "", <<>>, TRUE, TRUE)
  \/ AddReread(1, TRUE)
  \/ AddCommit(1, TRUE, FALSE)

SpecNumbers == Init /\ [][NextNumbers]_vars

\* Rescheduling: a client submits files and URLs of any priority, tagged
\* "a" and "b" or not, and reschedules them; set_status moves tasks on to
\* running and completed meanwhile.  The store does not fail and the files
\* stay where they were.
NextReschedule ==
  \/ \E d \in {CHOOSE x \in Digests : TRUE}, p \in Priorities,
        l \in {<<>>, <<"a", "b">>} :
       /\ seq.task < LifeTasks
       /\ AddPath(1, "/path", d, MaxNumber, p, "c", l, TRUE, TRUE)
  \/ \E p \in Priorities, l \in {<<>>, <<"a", "b">>} :
       /\ seq.task < LifeTasks
       /\ AddUrl(1, "url", MaxNumber, p, "c", l, TRUE, FALSE)
  \/ \E t \in 1..LifeTasks :
       /\ seq.task < LifeTasks
       /\ RescheduleView(1, t, TRUE)
  \/ \E d \in {CHOOSE x \in Digests : TRUE} : RescheduleRecover(1, d, TRUE, TRUE)
  \/ AddEnter(1, TRUE, FALSE)
  \/ AddReread(1, TRUE)
  \/ AddTags(1)
  \/ AddCommit(1, TRUE, FALSE)
  \/ \E t \in DOMAIN tasks, st \in {TASK_RUNNING, TASK_COMPLETED} :
       /\ <<tasks[t].status, st>> \in
            {<<TASK_PENDING, TASK_RUNNING>>, <<TASK_RUNNING, TASK_COMPLETED>>}
       /\ SetStatus(t, st, TRUE, FALSE)

SpecReschedule == Init /\ [][NextReschedule]_vars

\* Deleting: a client submits URLs and files, tagged "a" or not, errors
\* are logged against tasks, and tasks are deleted; the store can refuse
\* the commit of a delete.
NextDelete ==
  \/ \E l \in {<<>>, <<"a">>} :
       /\ seq.task < MaxTasks
       /\ AddUrl(1, "url", 0, 1, "", l, TRUE, FALSE)
  \/ \E d \in {CHOOSE x \in Digests : TRUE}, l \in {<<>>, <<"a">>} :
       /\ seq.task < MaxTasks
       /\ AddPath(1, "/path", d, 0, 1, "", l, TRUE, TRUE)
  \/ AddReread(1, TRUE)
  \/ AddTags(1)
  \/ AddCommit(1, TRUE, FALSE)
  \/ \E t \in DOMAIN tasks :
       /\ seq.error < MaxErrors
       /\ AddError(t, TRUE)
  \/ \E t \in 1..MaxTasks, ok \in BOOLEAN : DeleteTask(t, ok)

SpecDelete == Init /\ [][NextDelete]_vars

\* Submissions on a failing store: a client submits files of either
\* content, tagged "a" or not; the store can fail any query or commit.
\* Nothing is deleted.
NextWrite ==
  \/ \E d \in Digests, l \in {<<>>, <<"a">>}, ok \in BOOLEAN :
       /\ seq.task < MaxTasks
       /\ AddPath(1, "/path", d, 0, 1, "", l, TRUE, ok)
  \/ \E ok \in BOOLEAN : AddReread(1, ok)
  \/ AddTags(1)
  \/ \E ok \in BOOLEAN : AddCommit(1, ok, FALSE)

SpecWrite == Init /\ [][NextWrite]_vars

\* Reporting: reporters run side by side on the reports of file and URL
\* tasks; the sample files hold one of two contents, or are not valid.
\* Where run reads neither the file nor its digest (a URL task, a file
\* that is not valid) one value stands for all.
Shas == {"s1", "s2"}

NextReport ==
  \/ \E r \in Reporters, t \in 1..LifeTasks, c \in {"file", "url"},
        sha \in Shas, valid \in BOOLEAN :
       /\ Cardinality(DOMAIN analysis)
            + Cardinality({k \in Reporters : rp[k] # Idle}) < MaxReports
       /\ (c = "url" \/ ~valid) => sha = "s1"
       /\ c = "url" => ~valid
       /\ RunEnter(r, t, c, sha, valid)
  \/ \E r \in Reporters : StoreFind(r)
  \/ \E r \in Reporters : StoreClose(r)
  \/ \E r \in Reporters : StoreRefind(r)
  \/ \E r \in Reporters : Save(r)
  \/ \E r \in Reporters : Disconnect(r)

SpecReport == Init /\ [][NextReport]_vars

\* The reads on a failing store: URLs are submitted, run and given errors,
\* while tools list, count and view; any query of a read can fail.
NextRead ==
  \/ \E tick \in BOOLEAN :
       /\ seq.task < LifeTasks
       /\ AddUrl(1, "url", 0, 1, "", <<>>, TRUE, tick)
  \/ \E t \in DOMAIN tasks :
       /\ tasks[t].status = TASK_PENDING
       /\ SetStatus(t, TASK_RUNNING, TRUE, FALSE)
  \/ \E t \in DOMAIN tasks :
       /\ seq.error < MaxErrors
       /\ AddError(t, TRUE)
  \/ \E limit, offset \in {NULL, 1}, category \in {"", "url"},
        status, not_status \in {"", TASK_PENDING}, ok \in BOOLEAN :
       ListTasks(limit, category, offset, status, not_status, ok)
  \/ \E status \in {"", TASK_PENDING}, ok \in BOOLEAN : CountTasks(status, ok)
  \/ \E t \in 1..LifeTasks, ok \in BOOLEAN : ViewTask(t, ok)
  \/ \E t \in 1..LifeTasks, ok \in BOOLEAN : ViewErrors(t, ok)

SpecRead == Init /\ [][NextRead]_vars

\* Tag strings: a client submits URLs tagged "", "a", "b" or "a,a"; the
\* store does not fail.
TagStrings == {<<>>, <<"a">>, <<"b">>, <<"a", "a">>}

NextLabels ==
  \/ \E l \in TagStrings, tick \in BOOLEAN :
       /\ seq.task < MaxTasks
       /\ AddUrl(1, "url", 0, 1, "", l, TRUE, tick)
  \/ \E tick \in BOOLEAN : AddCommit(1, TRUE, tick)

SpecLabels == Init /\ [][NextLabels]_vars

\* =============================================================== claims
\* The ids fetch has returned.
ReturnedIds == {returned[k].id : k \in DOMAIN returned}

\* The state machine of a task's status.
Transitions ==
  {<<TASK_PENDING, TASK_RUNNING>>, <<TASK_RUNNING, TASK_COMPLETED>>,
   <<TASK_RUNNING, TASK_FAILED_ANALYSIS>>, <<TASK_COMPLETED, TASK_REPORTED>>,
   <<TASK_COMPLETED, TASK_FAILED_PROCESSING>>}
  \cup {<<s, TASK_RECOVERED>> :
          s \in {TASK_RUNNING, TASK_COMPLETED, TASK_FAILED_ANALYSIS,
                 TASK_FAILED_PROCESSING}}

Terminal ==
  {TASK_RECOVERED, TASK_REPORTED, TASK_FAILED_ANALYSIS, TASK_FAILED_PROCESSING}

\* C1 - Exclusive claim: no task id is returned by two calls of fetch,
\* whatever the interleaving of the workers' steps.
ExclusiveClaim ==
  \A k, m \in DOMAIN returned : k # m => returned[k].id # returned[m].id

\* C2 - No task is lost: with DrainTasks tasks pending and every worker
\* calling fetch until it returns None, the workers all stop in the end,
\* and then every task has been returned by some fetch and none is pending.
NoTaskLost ==
  <>[](/\ done = Workers
       /\ ReturnedIds = DrainIds
       /\ \A i \in DOMAIN tasks : tasks[i].status # TASK_PENDING)

\* C2, its case: the workers have drained the queue.
Drained ==
  /\ done = Workers
  /\ ReturnedIds = DrainIds
  /\ \A i \in DOMAIN tasks : tasks[i].status # TASK_PENDING

\* A pending row i no pending row beats: none has a higher priority, and
\* none of the same priority was added earlier.
BestPending(i) ==
  /\ i \in DOMAIN tasks
  /\ tasks[i].status = TASK_PENDING
  /\ \A j \in DOMAIN tasks :
       tasks[j].status = TASK_PENDING =>
         \/ tasks[j].priority < tasks[i].priority
         \/ /\ tasks[j].priority = tasks[i].priority
            /\ tasks[j].added_on >= tasks[i].added_on

\* C3 - Priority ordering: when a task is pending and the store answers,
\* the query of fetch takes a pending task of the highest priority and,
\* among those, of the earliest added_on; that task is the one fetch
\* returns.
PriorityOrdering ==
  [][\A w \in Workers :
       /\ (wpc[w] = "idle" /\ wpc'[w] = "selected") => BestPending(wrow'[w].id)
       /\ (/\ Fetch(w, TRUE)
           /\ \E i \in DOMAIN tasks : tasks[i].status = TASK_PENDING)
          => wpc'[w] = "selected"
       /\ (wpc[w] = "locked" /\ wpc'[w] = "idle")
          => /\ Len(returned') = Len(returned) + 1
             /\ returned'[Len(returned')].id = wrow[w].id]_vars

\* C3, its case: tasks 1, 2, 3 submitted in this order with priorities 1, 5,
\* 3, all before the first fetch, were returned in the order 2, 3, 1.
ClaimedFiveThreeOne ==
  /\ DOMAIN tasks = {1, 2, 3}
  /\ <<tasks[1].priority, tasks[2].priority, tasks[3].priority>> = <<1, 5, 3>>
  /\ tasks[3].added_on <= tasks[2].started_on
  /\ Len(returned) = 3
  /\ <<returned[1].id, returned[2].id, returned[3].id>> = <<2, 3, 1>>

\* C4 - Claim selects and marks atomically: every row fetch returns is
\* stored as running, with started_on set, when fetch returns it.
ReturnedRunning ==
  \A k \in DOMAIN returned :
    returned[k].status = TASK_RUNNING /\ returned[k].started_on # NULL

\* C5 - With no pending task, fetch returns None and changes no row.
IdleFetchReturnsNone ==
  [][\A w \in Workers, ok \in BOOLEAN :
       (/\ \A i \in DOMAIN tasks : tasks[i].status # TASK_PENDING
        /\ Fetch(w, ok))
       => /\ last' = [op |-> "fetch", outcome |-> "None"]
          /\ wpc'[w] = "idle"
          /\ <<tasks', samples', tags', errors'>> = <<tasks, samples, tags, errors>>]_vars

\* C5, its case: fetch has returned None from a store that holds tasks,
\* none of them pending, a sample, a tag and an error.
IdleFetchSeen ==
  /\ last = [op |-> "fetch", outcome |-> "None"]
  /\ DOMAIN tasks # {}
  /\ \A i \in DOMAIN tasks : tasks[i].status # TASK_PENDING
  /\ DOMAIN samples # {} /\ DOMAIN tags # {} /\ DOMAIN errors # {}

\* C6 - Every change of a stored task's status is a transition of the state
\* machine, and every task starts pending.
OnlyTransitions ==
  [][/\ \A t \in DOMAIN tasks \cap DOMAIN tasks' :
          tasks'[t].status # tasks[t].status
            => <<tasks[t].status, tasks'[t].status>> \in Transitions
     /\ \A t \in (DOMAIN tasks') \ DOMAIN tasks :
          tasks'[t].status = TASK_PENDING]_vars

\* C7 - set_status to a status that is not reachable from the task's
\* status fails with InvalidTransition and leaves the task as it was.
SetStatusValidates ==
  [][\A t \in 1..LifeTasks, s \in Statuses, ok, tick \in BOOLEAN :
       (/\ t \in DOMAIN tasks
        /\ <<tasks[t].status, s>> \notin Transitions
        /\ SetStatus(t, s, ok, tick))
       => /\ last'.outcome = "InvalidTransition"
          /\ tasks' = tasks]_vars

\* C8 - set_status on an id with no task fails with NotFound, changes no
\* row and raises nothing else.
SetStatusMissingIsNotFound ==
  [][\A t \in 1..LifeTasks, s \in Statuses, ok, tick \in BOOLEAN :
       (t \notin DOMAIN tasks /\ SetStatus(t, s, ok, tick))
       => /\ last'.outcome = "NotFound"
          /\ <<tasks', samples', tags', errors'>> = <<tasks, samples, tags, errors>>]_vars

\* C9 - Terminal statuses stay terminal: no step changes the status of a
\* stored task that is recovered, reported, failed_analysis or
\* failed_processing.
TerminalStays ==
  [][\A t \in DOMAIN tasks \cap DOMAIN tasks' :
       tasks[t].status \in Terminal => tasks'[t].status = tasks[t].status]_vars

\* C10 - Timestamp invariant: started_on is set exactly when the status is
\* running or later, completed_on exactly when it is completed or later (a
\* recovered task may have been running or completed: its completed_on is
\* left open).
TimestampInvariant ==
  \A t \in DOMAIN tasks :
    /\ tasks[t].started_on # NULL <=> tasks[t].status # TASK_PENDING
    /\ tasks[t].status \in {TASK_COMPLETED, TASK_REPORTED, TASK_FAILED_PROCESSING}
         => tasks[t].completed_on # NULL
    /\ tasks[t].status \in {TASK_PENDING, TASK_RUNNING, TASK_FAILED_ANALYSIS}
         => tasks[t].completed_on = NULL

\* C11 - Category/sample invariant: every file task references a stored
\* samples row, and every url task references none.
CategorySample ==
  \A t \in DOMAIN tasks :
    /\ tasks[t].category = "file"
         => tasks[t].sample_id # NULL /\ tasks[t].sample_id \in DOMAIN samples
    /\ tasks[t].category = "url" => tasks[t].sample_id = NULL

\* C11, its case: a url task is stored beside two file tasks of one
\* content, the later of which got its sample by the re-read.
FilesAndUrlStored ==
  /\ \E t \in DOMAIN tasks : tasks[t].category = "url"
  /\ \E t, u \in DOMAIN tasks :
       /\ t # u
       /\ tasks[t].category = "file" /\ tasks[u].category = "file"
       /\ tasks[t].sample_id = tasks[u].sample_id

\* C12 - Sample deduplication: no two samples rows hold the same content,
\* and on a store that answers every submission of a file succeeds and its
\* task references the one samples row of the file's content.
SampleDedup ==
  [][/\ \A i, j \in DOMAIN samples' : samples'[i] = samples'[j] => i = j
     /\ \A c \in Clients :
          (cl[c].pc = "commit" /\ cl[c].labels = <<>> /\ AddCommit(c, TRUE, FALSE))
          => /\ last'.outcome = "id"
             /\ tasks'[seq'.task].sample_id \in SamplesWith(samples', cl[c].digest)]_vars

\* C13 - Tag get-or-create tolerates races: on a store that answers, a
\* submission that names a label succeeds whatever other submissions run
\* beside it, one tags row holds the label, and the new task is associated
\* with that row.
TagRaceTolerated ==
  [][\A c \in Clients :
       (cl[c].pc = "commit" /\ cl[c].labels = <<"a">> /\ AddCommit(c, TRUE, FALSE))
       => /\ last'.outcome = "id"
          /\ Cardinality({i \in DOMAIN tags' : tags'[i] = "a"}) = 1
          /\ tasks'[seq'.task].tags = {i \in DOMAIN tags' : tags'[i] = "a"}]_vars

\* C14 - Submit normalizes its numeric inputs: the task a submission
\* stores has timeout 0 when the timeout passed is <= 0 and priority 1
\* when the priority passed is <= 0, and the values passed otherwise.
SubmitNormalizes ==
  [][\A timeout, priority \in Numbers :
       AddUrl(1, "url", timeout, priority, "", <<>>, TRUE, FALSE)
       => /\ tasks'[seq'.task].timeout = (IF timeout <= 0 THEN 0 ELSE timeout)
          /\ tasks'[seq'.task].priority = (IF priority <= 0 THEN 1 ELSE priority)]_vars

\* The columns reschedule is to carry from the original task to the new one.
SameSubmission(r, o) ==
  /\ r.target = o.target /\ r.category = o.category
  /\ r.timeout = o.timeout /\ r.priority = o.priority
  /\ r.custom = o.custom /\ r.tags = o.tags

\* C15 - Reschedule: on a store that answers, reschedule of a stored task
\* marks it recovered, and the add it ends with stores exactly one new
\* task, pending, with the original's target, category, timeout, priority,
\* custom and tag set, and returns its id, which is not the original's.
RescheduleResubmits ==
  [][/\ \A t \in DOMAIN tasks :
          RescheduleView(1, t, TRUE) => cl'[1].pc = "recover" /\ cl'[1].id = t
     /\ \A d \in Digests :
          RescheduleRecover(1, d, TRUE, TRUE)
          => /\ tasks'[cl[1].id].status = TASK_RECOVERED
             /\ DOMAIN tasks' = DOMAIN tasks
             /\ cl'[1].pc = "add"
     /\ (/\ cl[1].pc # "idle" /\ cl[1].pc # "recover" /\ cl[1].call = "reschedule"
         /\ cl'[1] # cl[1])
        => \/ cl'[1].pc \notin {"idle", "recover"} /\ tasks' = tasks
           \/ /\ cl'[1] = Idle
              /\ last' = [op |-> "reschedule", outcome |-> "id"]
              /\ seq'.task # cl[1].id
              /\ DOMAIN tasks' = DOMAIN tasks \cup {seq'.task}
              /\ seq'.task \notin DOMAIN tasks
              /\ tasks'[seq'.task].status = TASK_PENDING
              /\ SameSubmission(tasks'[seq'.task], tasks[cl[1].id])
              /\ \A t \in DOMAIN tasks : tasks'[t] = tasks[t]]_vars

\* C15, its case: a file task of priority 5 tagged "a" and "b" was
\* rescheduled: it is recovered and the new task, pending, has its columns.
RescheduledFileTask ==
  /\ last = [op |-> "reschedule", outcome |-> "id"]
  /\ DOMAIN tasks = {1, 2}
  /\ tasks[1].category = "file" /\ tasks[1].priority = 5
  /\ {tags[i] : i \in tasks[1].tags} = {"a", "b"}
  /\ tasks[1].status = TASK_RECOVERED
  /\ tasks[2].status = TASK_PENDING
  /\ SameSubmission(tasks[2], tasks[1])

\* C16 - Reschedule surfaces a failed re-submit: when reschedule has
\* marked the task recovered and then stores no new task (the file is gone,
\* or the store fails a step of add), its result is not the None it
\* returns for an id with no task.
ResubmitFailureSurfaced ==
  [][\A c \in Clients :
       /\ (/\ cl[c].pc = "recover" /\ cl[c].category = "file"
           /\ \E d \in Digests : RescheduleRecover(c, d, TRUE, FALSE)
           /\ tasks'[cl[c].id].status = TASK_RECOVERED)
          => last'.outcome # "None"
       /\ (/\ cl[c].pc \in {"add", "reread", "tags", "commit"}
           /\ cl[c].call = "reschedule"
           /\ cl'[c] = Idle
           /\ DOMAIN tasks' = DOMAIN tasks)
          => last'.outcome # "None"]_vars

\* C17 - Delete: a delete_task the store commits removes the task and its
\* errors rows, and leaves as they were every tags row another task is
\* associated with, every other task and every samples row.
DeleteRemovesOnlyTheTask ==
  [][\A t \in DOMAIN tasks :
       DeleteTask(t, TRUE)
       => /\ t \notin DOMAIN tasks'
          /\ \A e \in DOMAIN errors' : errors'[e] # t
          /\ \A g \in DOMAIN tags :
               (\E u \in DOMAIN tasks : u # t /\ g \in tasks[u].tags)
               => g \in DOMAIN tags' /\ tags'[g] = tags[g]
          /\ \A u \in DOMAIN tasks :
               u # t => u \in DOMAIN tasks' /\ tasks'[u] = tasks[u]
          /\ samples' = samples]_vars

\* C18 - Failed writes leave no partial state: where nothing is deleted,
\* every samples row is referenced by a stored task or by a submission
\* still in progress (a submission that failed has left no row behind), and
\* so is every tags row.
NoRowLeftBehind ==
  /\ \A i \in DOMAIN samples :
       \/ \E t \in DOMAIN tasks : tasks[t].sample_id = i
       \/ \E c \in Clients : cl[c].pc \in {"tags", "commit"} /\ cl[c].sample_id = i
  /\ \A g \in DOMAIN tags : \E t \in DOMAIN tasks : g \in tasks[t].tags

\* C19 - StoreBlob deduplicates by digest: fs.files never holds two
\* documents of one sha256, and every store_file, racing or not, ends
\* without an error and with the _id of the stored document of its
\* content's sha256.
BlobDedup ==
  [][/\ \A i, j \in DOMAIN fs_files' : fs_files'[i] = fs_files'[j] => i = j
     /\ \A r \in Reporters :
          (rp[r].pc \in {"find", "close", "refind"} /\ rp'[r] # rp[r])
          => /\ rp'[r].pc \in {"close", "refind", "save"}
             /\ rp[r].pc = "refind" => rp'[r].pc = "save"
             /\ rp'[r].pc = "save"
                  => /\ rp'[r].report.target.file_id \in DOMAIN fs_files'
                     /\ fs_files'[rp'[r].report.target.file_id] = rp[r].sha]_vars

\* C19, its case: two reporters raced to store one content; the loser's
\* chunks are in fs.chunks with no fs.files document, and both reports
\* reference the one stored file.
BlobRaceSeen ==
  /\ Cardinality(DOMAIN fs_files) = 1
  /\ \E i \in fs_chunks : i \notin DOMAIN fs_files
  /\ \E a, b \in DOMAIN analysis :
       /\ a # b
       /\ analysis[a].category = "file" /\ analysis[b].category = "file"
       /\ analysis[a].target.file_id = analysis[b].target.file_id

\* C20 - PersistReport is an idempotent overwrite keyed by task id: the
\* analysis collection never holds two reports of one task.
OneReportPerTask ==
  \A a, b \in DOMAIN analysis : analysis[a].id = analysis[b].id => a = b

\* C21 - PersistReport never mutates the caller's result document: all
\* through run and when it is about to return, results has the keys and
\* the target section it was handed in with (no file_id, no _id); the
\* persisted copy alone has the target section that references the stored
\* file, which it has exactly for a file task whose sample file is valid.
ResultsUntouched ==
  \A r \in Reporters :
    rp[r] # Idle =>
      /\ rp[r].results = Results(rp[r].results.id, rp[r].results.category)
      /\ rp[r].pc = "saved" =>
           LET doc == analysis[rp[r].report["_id"]] IN
             /\ doc.id = rp[r].results.id
             /\ DOMAIN doc = DOMAIN rp[r].results
             /\ IF rp[r].results.category = "file" /\ rp[r].valid
                THEN \E i \in DOMAIN fs_files :
                       /\ fs_files[i] = rp[r].sha
                       /\ doc.target = [file_id |-> i] @@ rp[r].results.target
                ELSE doc.target = rp[r].results.target

\* C21, its case: run has saved the report of a file task and of a URL
\* task; the file report references the stored file, the results of both
\* are as they were handed in.
FileAndUrlReportSaved ==
  \E a, b \in Reporters :
    /\ rp[a].pc = "saved" /\ rp[b].pc = "saved"
    /\ rp[a].results.category = "file" /\ rp[b].results.category = "url"
    /\ "file_id" \in DOMAIN analysis[rp[a].report["_id"]].target
    /\ "file_id" \notin DOMAIN rp[a].results.target
    /\ analysis[rp[b].report["_id"]].target = rp[b].results.target

\* C22 - Read operations degrade on store failure: a list_tasks or a
\* view_errors whose query fails returns an empty sequence, a count_tasks
\* 0 and a view_task none, and a failing read changes no stored row.
ReadsDegrade ==
  [][/\ (\E limit, offset \in {NULL, 1}, category \in {"", "url"},
            status, not_status \in {"", TASK_PENDING} :
           ListTasks(limit, category, offset, status, not_status, FALSE))
          => /\ last'.outcome = "rows" /\ last'.rows = <<>>
             /\ store' = store
     /\ (\E status \in {"", TASK_PENDING} : CountTasks(status, FALSE))
          => /\ last'.outcome = "count" /\ last'.count = 0
             /\ store' = store
     /\ (\E t \in 1..LifeTasks : ViewTask(t, FALSE))
          => /\ last'.outcome = "None"
             /\ store' = store
     /\ (\E t \in 1..LifeTasks : ViewErrors(t, FALSE))
          => /\ last'.outcome = "rows" /\ last'.rows = <<>>
             /\ store' = store]_vars

\* C23 - SetStatus timestamp effects: the row a set_status call writes gets
\* started_on only when the new status is running and started_on was
\* unset (a set started_on stays); it gets completed_on when the new
\* status is completed, failed_analysis or failed_processing; any other
\* status leaves both timestamps as they were.
SetStatusTimestamps ==
  [][\A t \in DOMAIN tasks \cap DOMAIN tasks' :
       (last'.op = "set_status" /\ tasks'[t] # tasks[t]) =>
         LET old == tasks[t]
             new == tasks'[t] IN
           /\ new.started_on =
                IF new.status = TASK_RUNNING /\ old.started_on = NULL
                THEN now' ELSE old.started_on
           /\ new.completed_on =
                IF new.status \in {TASK_COMPLETED, TASK_FAILED_ANALYSIS,
                                   TASK_FAILED_PROCESSING}
                THEN now' ELSE old.completed_on]_vars

\* C24 - Claim racing with Delete: a fetch whose selected row was deleted
\* before it was marked running ends without raising, with None or with a
\* row that is stored; and no fetch ever returns a row that is not stored
\* when it returns.
ClaimSurvivesDelete ==
  [][\A w \in Workers :
       /\ (wpc[w] = "selected" /\ wrow[w].id \notin DOMAIN tasks
           /\ wpc'[w] # wpc[w])
            => (wpc'[w] = "idle" => last'.outcome \in {"None", "row"})
       /\ (wpc[w] # "idle" /\ wpc'[w] = "idle" /\ last'.outcome = "row")
            => returned'[Len(returned')].id \in DOMAIN tasks']_vars

\* C25 - A submission whose tag string names a label twice ("a,a"), the
\* label not being stored yet, succeeds, stores exactly one tags row of
\* the label and associates the new task with that row; and after every
\* submission no two tags rows hold one label.
LabelTwiceOneTag ==
  [][\A tick \in BOOLEAN :
       (/\ cl[1].pc = "commit" /\ cl[1].labels = <<"a", "a">>
        /\ \A i \in DOMAIN tags : tags[i] # "a"
        /\ AddCommit(1, TRUE, tick))
       => /\ last'.outcome = "id"
          /\ Cardinality({i \in DOMAIN tags' : tags'[i] = "a"}) = 1
          /\ tasks'[seq'.task].tags = {i \in DOMAIN tags' : tags'[i] = "a"}
          /\ \A i, j \in DOMAIN tags' : tags'[i] = tags'[j] => i = j]_vars

\* C26 - A file task references the sample of its own content: the samples
\* row of the task a file submission stores holds the digests (md5, crc32,
\* sha1, sha256, sha512) of the file submitted, also when the insert of
\* the sample was refused and the row re-read by md5.
OwnSample ==
  [][\A c \in Clients :
       (/\ cl[c].pc = "commit" /\ cl[c].category = "file"
        /\ cl'[c] = Idle /\ seq'.task = seq.task + 1)
       => /\ tasks'[seq'.task].sample_id \in DOMAIN samples'
          /\ samples'[tasks'[seq'.task].sample_id] = cl[c].digest]_vars

====
